---- MODULE Spec2Model ----
(***************************************************************************)
(* Geofence attendance engine of src/app.py: the GeoFence, Attendance and  *)
(* LocationPing tables, and the request handlers that read and write them. *)
(*                                                                         *)
(* Every handler that writes runs in two steps, as the ORM session does:   *)
(* it first reads (SELECT ... LIMIT 1, no lock is kept), decides, and then *)
(* flushes and commits (INSERT, or UPDATE ... WHERE id = ?).  The server   *)
(* is threaded, so steps of different requests interleave.                 *)
(*                                                                         *)
(* Coordinates are fixed-point integers in millidegrees, distances are in  *)
(* millimetres, radii in metres, and the clock counts ticks.               *)
(***************************************************************************)
EXTENDS Integers, Sequences, FiniteSets, TLC

VARIABLES
    geofence,       \* the GeoFence table, a sequence of rows (id = position)
    attendance,     \* the Attendance table, a sequence of rows (id = position)
    location_ping,  \* the LocationPing table, a sequence of rows
    clock,          \* datetime.utcnow(), in ticks, never decreasing
    pc,             \* per execution: "idle" or "commit" (read done, write pending)
    req,            \* per execution: the locals kept between read and commit
    response,       \* the response the last step sent, and to which request
    served          \* how many executions have started so far

vars == <<geofence, attendance, location_ping, clock, pc, req, response, served>>

---------------------------------------------------------------------------
(* Bounds of the model. *)

NumProcs == 2
NumUsers == 2
MaxClock == 2
TicksPerDay == 2
MaxAttendance == 2
MaxPings == 2
MaxGeofences == 2
MaxRequests == 3

Procs == 1..NumProcs
Users == 1..NumUsers

---------------------------------------------------------------------------
(* Values. *)

\* SQL NULL / Python None for a nullable numeric column.
NULL == -1

\* Default geofence centre and radius (create_default_geofence), the centre
\* in millidegrees.
DefaultLat == 17385
DefaultLng == 78487
DefaultRadius == 200

\* Earth radius in metres (haversine).
R == 6371000

\* cos(phi1) * cos(phi2), in thousandths, for the latitudes of the model, which
\* all lie within 0.01 degree of DefaultLat: cos(17.385 deg)^2 = 0.9107.
CosCosPermille == 911

\* A raw request value before float(): a finite number (JSON number or
\* numeric string), a value float() turns into nan (the string "nan", the JSON
\* literal NaN), a non-numeric string, or a missing value (None).
Num(x) == [kind |-> "num", val |-> x]
Nan == [kind |-> "nan", val |-> 0]
Text == [kind |-> "text", val |-> 0]
Missing == [kind |-> "none", val |-> 0]

\* The (lat, lng) pairs that requests carry: the default centre, a point about
\* 246 m north-east of it, and malformed pairs.
RawPoints == {<<Num(DefaultLat), Num(DefaultLng)>>,
              <<Num(DefaultLat + 2), Num(DefaultLng + 1)>>,
              <<Nan, Num(DefaultLng)>>,
              <<Text, Num(DefaultLng)>>, <<Num(DefaultLat), Missing>>}
\* The centres and radii an admin posts; 91 degrees is no latitude.
RawCentres == {<<Num(DefaultLat), Num(DefaultLng)>>,
               <<Num(DefaultLat + 2), Num(DefaultLng + 1)>>,
               <<Num(91 * 1000), Num(DefaultLng)>>,
               <<Num(DefaultLat), Text>>, <<Missing, Num(DefaultLng)>>}
RawRadii == {Num(150), Num(0), Num(0 - 5), Text}
\* "other" stands for every action that is neither check_in nor check_out,
\* a missing one included.
RawActions == {"check_in", "check_out", "other"}
RawNames == {"", " ", "Lab"}

\* float(x) succeeds exactly on numbers, nan included; None raises TypeError
\* and a non-numeric string ValueError.
FloatOk(x) == x.kind \in {"num", "nan"}

\* math.isnan(float(x))
IsNan(x) == x.kind = "nan"

NoGf == [id |-> 0, name |-> "", center_lat |-> 0, center_lng |-> 0,
         radius_m |-> 0, active |-> FALSE]

\* GeoFence(name, center_lat, center_lng, radius_m, active=True) with id `i`
NewGeoFence(i, name, lat, lng, radius) ==
    [id |-> i, name |-> name, center_lat |-> lat, center_lng |-> lng,
     radius_m |-> radius, active |-> TRUE]

\* The row create_default_geofence inserts into an empty table.
DefaultGeoFence ==
    NewGeoFence(1, "Hyderabad HQ", DefaultLat, DefaultLng, DefaultRadius)

NoPhoto == <<>>

NoReq == [op |-> "none", user |-> 0, action |-> "none", lat |-> 0, lng |-> 0,
          today |-> 0, now |-> 0, att |-> 0, inside |-> FALSE,
          gf |-> NoGf, name |-> "", radius |-> 0, photo |-> FALSE]

NoResponse == [proc |-> 0, op |-> "none", user |-> 0, action |-> "none",
               outcome |-> "none"]

---------------------------------------------------------------------------
(* Geo math. *)

\* math.sqrt on integers, rounded down: bisection keeping lo^2 <= n < hi^2.
RECURSIVE SqrtBetween(_, _, _)
SqrtBetween(n, lo, hi) ==
    IF hi - lo <= 1 THEN lo
    ELSE LET mid == (lo + hi) \div 2
         IN IF mid * mid <= n THEN SqrtBetween(n, mid, hi)
                              ELSE SqrtBetween(n, lo, mid)

ISqrt(n) == SqrtBetween(n, 0, IF n < 46340 THEN n + 1 ELSE 46340)

\* haversine(lat1, lon1, lat2, lon2), in millimetres.  For the angle
\* differences of the model (at most 0.01 degree) sin x = x and atan2(sqrt a,
\* sqrt(1 - a)) = sqrt a to nine digits, so a = (dphi/2)^2 +
\* cos(phi1) cos(phi2) (dlambda/2)^2 and the distance is R * sqrt(4a), with
\* pi = 355/113.
haversine(lat1, lon1, lat2, lon2) ==
    LET dphi == lat2 - lat1
        dlambda == lon2 - lon1
        a4 == 1000 * dphi * dphi + CosCosPermille * dlambda * dlambda
        c100 == ISqrt(a4 * 10)
        mmPerMilliDeg == ((((R \div 1000) * 355) \div 113) * 1000) \div 180
    IN (mmPerMilliDeg * c100) \div 100

\* Variant of Inside with an exclusive boundary.
Inside_exclusive(distance_mm, gf) == distance_mm < gf.radius_m * 1000

\* inside = distance_m <= gf.radius_m, the distance being in millimetres and
\* the radius in metres.
Inside(distance_mm, gf) == distance_mm <= gf.radius_m * 1000

---------------------------------------------------------------------------
(* Queries. *)

\* date.today() at instant t (the server's local time is UTC).
Today(t) == t \div TicksPerDay

\* Query.first() over the rows whose ids are `ids`: the first of them in the
\* table's order, which is the order of the ids; 0 when there is none.
First(ids) == IF ids = {} THEN 0 ELSE CHOOSE i \in ids : \A j \in ids : i <= j

\* Variant of get_active_geofence that falls back to the default zone when no
\* row is active.
get_active_geofence_or_default(gfs) ==
    LET i == First({k \in 1..Len(gfs) : gfs[k].active})
    IN IF i = 0 THEN DefaultGeoFence ELSE gfs[i]

\* Variant of get_active_geofence that sees an update in progress field by
\* field: the centre latitude of a pending admin update is already visible
\* while the other columns are still the committed ones.
get_active_geofence_torn(gfs) ==
    LET i == First({k \in 1..Len(gfs) : gfs[k].active})
        w == First({q \in Procs : pc[q] = "commit" /\ req[q].op = "admin_geofence"})
    IN IF i = 0 THEN NoGf
       ELSE IF w = 0 THEN gfs[i]
       ELSE [gfs[i] EXCEPT !.center_lat = req[w].lat]

\* GeoFence.query.filter_by(active=True).first()
get_active_geofence(gfs) ==
    LET i == First({k \in 1..Len(gfs) : gfs[k].active})
    IN IF i = 0 THEN NoGf ELSE gfs[i]

\* Attendance.query.filter_by(user_id=u, date=d).first(), as a row id
AttendanceOf(atts, u, d) ==
    First({k \in 1..Len(atts) : atts[k].user_id = u /\ atts[k].date = d})

---------------------------------------------------------------------------
TypeOK ==
    /\ clock \in 0..MaxClock
    /\ pc \in [Procs -> {"idle", "commit"}]
    /\ Len(geofence) <= MaxGeofences
    /\ Len(attendance) <= MaxAttendance
    /\ Len(location_ping) <= MaxPings
    /\ served \in 0..MaxRequests

\* The state when the server starts to serve: the tables are empty, but for
\* the default geofence when start-up has created it (__main__ does, before
\* app.run; under "flask run" only init-db does).
Init ==
    /\ geofence \in {<<>>, <<DefaultGeoFence>>}
    /\ attendance = <<>>
    /\ location_ping = <<>>
    /\ clock = 0
    /\ pc = [p \in Procs |-> "idle"]
    /\ req = [p \in Procs |-> NoReq]
    /\ response = NoResponse
    /\ served = 0

\* Rows that executions between read and commit are going to INSERT.
PendingAttendance ==
    Cardinality({p \in Procs : /\ pc[p] = "commit"
                               /\ req[p].op \in {"mark_attendance", "mark_attendance_photo"}
                               /\ req[p].att = 0})
PendingGeofence ==
    Cardinality({p \in Procs : /\ pc[p] = "commit"
                               /\ req[p].op \in {"admin_geofence", "create_default_geofence"}
                               /\ req[p].gf = NoGf})
PendingPing ==
    Cardinality({p \in Procs : pc[p] = "commit" /\ req[p].op = "ping_location"})

\* A new execution starts on p: the server hands it to the first free worker,
\* and the model follows MaxRequests executions.
Starts(p) ==
    /\ pc[p] = "idle"
    /\ \A q \in Procs : q < p => pc[q] = "commit"
    /\ served < MaxRequests

\* A step that ends with the response `outcome` the request `op` of user u.
Reply(p, op, u, action, outcome) ==
    /\ response' = [proc |-> p, op |-> op, user |-> u, action |-> action,
                    outcome |-> outcome]
    /\ pc' = [pc EXCEPT ![p] = "idle"]
    /\ req' = [req EXCEPT ![p] = NoReq]
    /\ served' = IF pc[p] = "idle" THEN served + 1 ELSE served

\* A step that keeps the locals `r` for the commit.
Proceed(p, r) ==
    /\ response' = NoResponse
    /\ pc' = [pc EXCEPT ![p] = "commit"]
    /\ req' = [req EXCEPT ![p] = r]
    /\ served' = served + 1

\* The clock advances.
Tick ==
    /\ clock < MaxClock
    /\ clock' = clock + 1
    /\ response' = NoResponse
    /\ UNCHANGED <<geofence, attendance, location_ping, pc, req, served>>

---------------------------------------------------------------------------
(* /api/mark_attendance and /api/mark_attendance_photo *)

\* Variant of mark_attendance without the already-checked-in refusal.
mark_attendance_recheckin(u, lat, lng, action, gfs, atts, day) ==
    IF lat.kind = "none" \/ lng.kind = "none" \/ action \notin {"check_in", "check_out"}
    THEN "InvalidData"
    ELSE LET gf == get_active_geofence(gfs) IN
    IF gf = NoGf THEN "NoActiveGeofence"
    ELSE IF ~FloatOk(lat) \/ ~FloatOk(lng) THEN "InvalidCoordinates"
    ELSE IF IsNan(lat) \/ IsNan(lng) THEN "UnhandledError"
    ELSE IF ~Inside(haversine(lat.val, lng.val, gf.center_lat, gf.center_lng), gf)
    THEN "OutsideZone"
    ELSE LET att == AttendanceOf(atts, u, day) IN
    IF action = "check_in"
    THEN "Proceed"
    ELSE IF att = 0 \/ atts[att].check_in_time = NULL
         THEN "NotCheckedIn"
         ELSE IF atts[att].check_out_time # NULL
              THEN "AlreadyCheckedOut"
              ELSE "Proceed"

\* Variant of mark_attendance that looks at the record before the zone.
mark_attendance_state_first(u, lat, lng, action, gfs, atts, day) ==
    IF lat.kind = "none" \/ lng.kind = "none" \/ action \notin {"check_in", "check_out"}
    THEN "InvalidData"
    ELSE LET gf == get_active_geofence(gfs) IN
    IF gf = NoGf THEN "NoActiveGeofence"
    ELSE IF ~FloatOk(lat) \/ ~FloatOk(lng) THEN "InvalidCoordinates"
    ELSE IF IsNan(lat) \/ IsNan(lng) THEN "UnhandledError"
    ELSE LET att == AttendanceOf(atts, u, day)
             inside == Inside(haversine(lat.val, lng.val, gf.center_lat,
                                        gf.center_lng), gf) IN
    IF action = "check_in"
    THEN IF att # 0 /\ atts[att].check_in_time # NULL
         THEN "AlreadyCheckedIn"
         ELSE IF inside THEN "Proceed" ELSE "OutsideZone"
    ELSE IF att = 0 \/ atts[att].check_in_time = NULL
         THEN "NotCheckedIn"
         ELSE IF atts[att].check_out_time # NULL
              THEN "AlreadyCheckedOut"
              ELSE IF inside THEN "Proceed" ELSE "OutsideZone"

\* Variant of mark_attendance whose check-out asks only for a record of the
\* day, not for its check-in time, and accepts a missing record.
mark_attendance_checkout_unguarded(u, lat, lng, action, gfs, atts, day) ==
    IF lat.kind = "none" \/ lng.kind = "none" \/ action \notin {"check_in", "check_out"}
    THEN "InvalidData"
    ELSE LET gf == get_active_geofence(gfs) IN
    IF gf = NoGf THEN "NoActiveGeofence"
    ELSE IF ~FloatOk(lat) \/ ~FloatOk(lng) THEN "InvalidCoordinates"
    ELSE IF IsNan(lat) \/ IsNan(lng) THEN "UnhandledError"
    ELSE IF ~Inside(haversine(lat.val, lng.val, gf.center_lat, gf.center_lng), gf)
    THEN "OutsideZone"
    ELSE LET att == AttendanceOf(atts, u, day) IN
    IF action = "check_in"
    THEN IF att # 0 /\ atts[att].check_in_time # NULL
         THEN "AlreadyCheckedIn"
         ELSE "Proceed"
    ELSE IF att # 0 /\ atts[att].check_out_time # NULL
         THEN "AlreadyCheckedOut"
         ELSE "Proceed"

\* The request's path through mark_attendance up to the write: the response
\* that ends it, or "Proceed" when it goes on to write and commit.  With a nan
\* coordinate the distance is nan, nan <= radius is False, and the reply's
\* int(distance_m) raises ValueError, which nothing handles.  "NoReturn" is
\* the end of the function, past both action branches.
mark_attendance(u, lat, lng, action, gfs, atts, day) ==
    IF lat.kind = "none" \/ lng.kind = "none" \/ action \notin {"check_in", "check_out"}
    THEN "InvalidData"
    ELSE LET gf == get_active_geofence(gfs) IN
    IF gf = NoGf THEN "NoActiveGeofence"
    ELSE IF ~FloatOk(lat) \/ ~FloatOk(lng) THEN "InvalidCoordinates"
    ELSE IF IsNan(lat) \/ IsNan(lng) THEN "UnhandledError"
    ELSE IF ~Inside(haversine(lat.val, lng.val, gf.center_lat, gf.center_lng), gf)
    THEN "OutsideZone"
    ELSE LET att == AttendanceOf(atts, u, day) IN
    IF action = "check_in"
    THEN IF att # 0 /\ atts[att].check_in_time # NULL
         THEN "AlreadyCheckedIn"
         ELSE "Proceed"
    ELSE IF action = "check_out"
    THEN IF att = 0 \/ atts[att].check_in_time = NULL
         THEN "NotCheckedIn"
         ELSE IF atts[att].check_out_time # NULL
              THEN "AlreadyCheckedOut"
              ELSE "Proceed"
    ELSE "NoReturn"

\* Variant of mark_attendance_photo without the already-checked-out refusal.
mark_attendance_photo_recheckout(u, lat, lng, action, photo, gfs, atts, day) ==
    IF ~photo THEN "NoPhoto"
    ELSE LET gf == get_active_geofence(gfs) IN
    IF gf = NoGf THEN "NoActiveGeofence"
    ELSE IF ~FloatOk(lat) \/ ~FloatOk(lng) THEN "InvalidCoordinates"
    ELSE IF IsNan(lat) \/ IsNan(lng) THEN "UnhandledError"
    ELSE IF ~Inside(haversine(lat.val, lng.val, gf.center_lat, gf.center_lng), gf)
    THEN "OutsideZone"
    ELSE LET att == AttendanceOf(atts, u, day) IN
    IF action = "check_in"
    THEN IF att # 0 /\ atts[att].check_in_time # NULL
         THEN "AlreadyCheckedIn"
         ELSE "Proceed"
    ELSE IF action = "check_out"
    THEN IF att = 0 \/ atts[att].check_in_time = NULL
         THEN "NotCheckedIn"
         ELSE "Proceed"
    ELSE "InvalidAction"

\* The same for mark_attendance_photo; `photo` tells whether the form holds
\* a photo.  The action is looked at only after the zone check.
mark_attendance_photo(u, lat, lng, action, photo, gfs, atts, day) ==
    IF ~photo THEN "NoPhoto"
    ELSE LET gf == get_active_geofence(gfs) IN
    IF gf = NoGf THEN "NoActiveGeofence"
    ELSE IF ~FloatOk(lat) \/ ~FloatOk(lng) THEN "InvalidCoordinates"
    ELSE IF IsNan(lat) \/ IsNan(lng) THEN "UnhandledError"
    ELSE IF ~Inside(haversine(lat.val, lng.val, gf.center_lat, gf.center_lng), gf)
    THEN "OutsideZone"
    ELSE LET att == AttendanceOf(atts, u, day) IN
    IF action = "check_in"
    THEN IF att # 0 /\ atts[att].check_in_time # NULL
         THEN "AlreadyCheckedIn"
         ELSE "Proceed"
    ELSE IF action = "check_out"
    THEN IF att = 0 \/ atts[att].check_in_time = NULL
         THEN "NotCheckedIn"
         ELSE IF atts[att].check_out_time # NULL
              THEN "AlreadyCheckedOut"
              ELSE "Proceed"
    ELSE "InvalidAction"

\* Attendance(user_id=u, date=day), as inserted with id `i`.
NewAttendance(i, u, day) ==
    [id |-> i, user_id |-> u, date |-> day,
     check_in_time |-> NULL, check_out_time |-> NULL,
     check_in_lat |-> NULL, check_in_lng |-> NULL,
     check_out_lat |-> NULL, check_out_lng |-> NULL,
     check_in_photo |-> NoPhoto, check_out_photo |-> NoPhoto, status |-> ""]

\* f"{g.user.id}_{action}_{now:%Y%m%d%H%M%S}.jpg"
Filename(r) == <<r.user, r.action, r.now>>

\* The check-in assignments on a row; mark_attendance_photo also sets the photo.
StampCheckIn(row, r) ==
    [row EXCEPT !.check_in_time = r.now, !.check_in_lat = r.lat,
                !.check_in_lng = r.lng, !.status = "Present",
                !.check_in_photo = IF r.photo THEN Filename(r) ELSE @]

\* Variant of StampCheckOut that stamps the day (`today`) where the instant
\* (`now`) belongs.
StampCheckOut_today(row, r) ==
    [row EXCEPT !.check_out_time = r.today * TicksPerDay, !.check_out_lat = r.lat,
                !.check_out_lng = r.lng,
                !.check_out_photo = IF r.photo THEN Filename(r) ELSE @]

\* The check-out assignments on a row.
StampCheckOut(row, r) ==
    [row EXCEPT !.check_out_time = r.now, !.check_out_lat = r.lat,
                !.check_out_lng = r.lng,
                !.check_out_photo = IF r.photo THEN Filename(r) ELSE @]

\* Variant of CommitAttendance whose UPDATE is keyed by the date alone: it
\* stamps every row of the request's day.
CommitAttendance_by_date(atts, r) ==
    IF r.action = "check_in"
    THEN IF r.att = 0
         THEN Append(atts, StampCheckIn(NewAttendance(Len(atts) + 1, r.user, r.today), r))
         ELSE [i \in 1..Len(atts) |->
                 IF atts[i].date = r.today THEN StampCheckIn(atts[i], r) ELSE atts[i]]
    ELSE [i \in 1..Len(atts) |->
            IF atts[i].date = r.today THEN StampCheckOut(atts[i], r) ELSE atts[i]]

\* db.session.commit() of a check-in or check-out whose read found row r.att
\* (0 = none): INSERT of the new row, or UPDATE of the columns that were set
\* on the row with that id.
CommitAttendance(atts, r) ==
    IF r.action = "check_in"
    THEN IF r.att = 0
         THEN Append(atts, StampCheckIn(NewAttendance(Len(atts) + 1, r.user, r.today), r))
         ELSE [atts EXCEPT ![r.att] = StampCheckIn(@, r)]
    ELSE [atts EXCEPT ![r.att] = StampCheckOut(@, r)]

\* The locals of an attendance request that goes on to write.
AttendanceReq(op, u, lat, lng, action, photo) ==
    [NoReq EXCEPT !.op = op, !.user = u, !.action = action,
                  !.lat = lat.val, !.lng = lng.val, !.photo = photo,
                  !.today = Today(clock), !.now = clock,
                  !.att = AttendanceOf(attendance, u, Today(clock))]

MarkAttendanceRead(p) ==
    /\ Starts(p)
    /\ \E u \in Users, pt \in RawPoints, action \in RawActions :
         LET lat == pt[1]
             lng == pt[2]
             outcome == mark_attendance(u, lat, lng, action, geofence, attendance,
                                        Today(clock))
             r == AttendanceReq("mark_attendance", u, lat, lng, action, FALSE)
         IN IF outcome = "Proceed"
            THEN /\ r.att = 0 => Len(attendance) + PendingAttendance < MaxAttendance
                 /\ Proceed(p, r)
            ELSE Reply(p, "mark_attendance", u, action, outcome)
    /\ UNCHANGED <<geofence, attendance, location_ping, clock>>

MarkAttendanceCommit(p) ==
    /\ pc[p] = "commit"
    /\ req[p].op = "mark_attendance"
    /\ attendance' = CommitAttendance(attendance, req[p])
    /\ Reply(p, req[p].op, req[p].user, req[p].action,
             IF req[p].action = "check_in" THEN "CheckInOk" ELSE "CheckOutOk")
    /\ UNCHANGED <<geofence, location_ping, clock>>

MarkAttendancePhotoRead(p) ==
    /\ Starts(p)
    /\ \E u \in Users, pt \in RawPoints, action \in RawActions, photo \in BOOLEAN :
         LET lat == pt[1]
             lng == pt[2]
             outcome == mark_attendance_photo(u, lat, lng, action, photo, geofence,
                                              attendance, Today(clock))
             r == AttendanceReq("mark_attendance_photo", u, lat, lng, action, TRUE)
         IN IF outcome = "Proceed"
            THEN /\ r.att = 0 => Len(attendance) + PendingAttendance < MaxAttendance
                 /\ Proceed(p, r)
            ELSE Reply(p, "mark_attendance_photo", u, action, outcome)
    /\ UNCHANGED <<geofence, attendance, location_ping, clock>>

MarkAttendancePhotoCommit(p) ==
    /\ pc[p] = "commit"
    /\ req[p].op = "mark_attendance_photo"
    /\ attendance' = CommitAttendance(attendance, req[p])
    /\ Reply(p, req[p].op, req[p].user, req[p].action,
             IF req[p].action = "check_in" THEN "CheckInOk" ELSE "CheckOutOk")
    /\ UNCHANGED <<geofence, location_ping, clock>>

---------------------------------------------------------------------------
(* /api/ping_location *)

\* The request's path through ping_location up to the write.  SQLite stores a
\* nan as NULL, which the NOT NULL columns lat and lng refuse: the INSERT of
\* a ping with a nan coordinate raises and no row is stored.
ping_location(lat, lng, gfs) ==
    IF lat.kind = "none" \/ lng.kind = "none" THEN "InvalidCoordinates"
    ELSE IF get_active_geofence(gfs) = NoGf THEN "NoActiveGeofence"
    ELSE IF ~FloatOk(lat) \/ ~FloatOk(lng) THEN "InvalidCoordinates"
    ELSE IF IsNan(lat) \/ IsNan(lng) THEN "UnhandledError"
    ELSE "Proceed"

\* LocationPing(user_id, lat, lng, inside_geofence), inserted with id `i` at
\* instant t (timestamp defaults to datetime.utcnow at the INSERT).
NewPing(i, r, t) ==
    [id |-> i, user_id |-> r.user, timestamp |-> t, lat |-> r.lat, lng |-> r.lng,
     inside_geofence |-> r.inside]

PingLocationRead(p) ==
    /\ Starts(p)
    /\ \E u \in Users, pt \in RawPoints :
         LET lat == pt[1]
             lng == pt[2]
             outcome == ping_location(lat, lng, geofence)
             gf == get_active_geofence(geofence)
         IN IF outcome = "Proceed"
            THEN /\ Len(location_ping) + PendingPing < MaxPings
                 /\ Proceed(p, [NoReq EXCEPT
                        !.op = "ping_location", !.user = u,
                        !.lat = lat.val, !.lng = lng.val,
                        !.inside = Inside(haversine(lat.val, lng.val,
                                                    gf.center_lat, gf.center_lng), gf)])
            ELSE Reply(p, "ping_location", u, "none", outcome)
    /\ UNCHANGED <<geofence, attendance, location_ping, clock>>

\* Variant of PingLocationCommit that keeps one row per user: it overwrites
\* the user's stored ping when there is one.
PingLocationCommit_upsert(p) ==
    /\ pc[p] = "commit"
    /\ req[p].op = "ping_location"
    /\ LET i == First({k \in 1..Len(location_ping) :
                         location_ping[k].user_id = req[p].user})
       IN location_ping' =
            IF i = 0
            THEN Append(location_ping, NewPing(Len(location_ping) + 1, req[p], clock))
            ELSE [location_ping EXCEPT ![i] = NewPing(i, req[p], clock)]
    /\ Reply(p, req[p].op, req[p].user, "none", "PingOk")
    /\ UNCHANGED <<geofence, attendance, clock>>

PingLocationCommit(p) ==
    /\ pc[p] = "commit"
    /\ req[p].op = "ping_location"
    /\ location_ping' = Append(location_ping,
                               NewPing(Len(location_ping) + 1, req[p], clock))
    /\ Reply(p, req[p].op, req[p].user, "none", "PingOk")
    /\ UNCHANGED <<geofence, attendance, clock>>

---------------------------------------------------------------------------
(* /admin/user/<user_id>/movement *)

\* The ?date= values of a movement request: a date that parses, one that does
\* not, and none.
RawDates == {Num(d) : d \in 0..Today(MaxClock)} \cup {Text, Missing}

\* target_date: the parsed date, or date.today() when the date is missing or
\* does not parse.
TargetDate(raw, t) == IF FloatOk(raw) THEN raw.val ELSE Today(t)

\* datetime.combine(day, datetime.min.time()) and (day, datetime.max.time()):
\* the first and the last instant of the day.
StartOfDay(day) == day * TicksPerDay
EndOfDay(day) == day * TicksPerDay + (TicksPerDay - 1)

\* rows without its k-th element.
RemoveAt(rows, k) ==
    [i \in 1..(Len(rows) - 1) |-> IF i < k THEN rows[i] ELSE rows[i + 1]]

\* .order_by(LocationPing.timestamp.asc()): the earliest row first, rows of
\* equal timestamp in table order.
RECURSIVE order_by_timestamp(_)
order_by_timestamp(rows) ==
    IF rows = <<>> THEN <<>>
    ELSE LET k == First({i \in 1..Len(rows) :
                          \A j \in 1..Len(rows) : rows[i].timestamp <= rows[j].timestamp})
         IN <<rows[k]>> \o order_by_timestamp(RemoveAt(rows, k))

\* Variant of user_movement whose filter has no upper end.
user_movement_from_start(pings, u, day) ==
    LET Selected(row) == /\ row.user_id = u
                         /\ row.timestamp >= StartOfDay(day)
    IN order_by_timestamp(SelectSeq(pings, Selected))

\* The pings user_movement hands to the template for user u and target_date
\* day.
user_movement(pings, u, day) ==
    LET Selected(row) == /\ row.user_id = u
                         /\ row.timestamp >= StartOfDay(day)
                         /\ row.timestamp <= EndOfDay(day)
    IN order_by_timestamp(SelectSeq(pings, Selected))

\* The handler reads and answers in one step; user id 0 is an id no User has
\* (get_or_404).
UserMovement(p) ==
    /\ Starts(p)
    /\ \E u \in 0..NumUsers, raw \in RawDates :
         response' =
           IF u \notin Users
           THEN [proc |-> p, op |-> "user_movement", user |-> u, action |-> "none",
                 outcome |-> "NotFound"]
           ELSE [proc |-> p, op |-> "user_movement", user |-> u, action |-> "none",
                 outcome |-> "Movement", target_date |-> TargetDate(raw, clock),
                 pings |-> user_movement(location_ping, u, TargetDate(raw, clock))]
    /\ served' = served + 1
    /\ UNCHANGED <<geofence, attendance, location_ping, clock, pc, req>>

---------------------------------------------------------------------------
(* /admin/geofence (POST) and create_default_geofence *)

\* request.form.get("name", "").strip() or "Office"
GeofenceName(raw) == IF raw = "" \/ raw = " " THEN "Office" ELSE raw

\* The POST's path through admin_geofence up to the write.
admin_geofence(lat, lng, radius) ==
    IF ~FloatOk(lat) \/ ~FloatOk(lng) \/ ~FloatOk(radius)
    THEN "InvalidGeofenceValues"
    ELSE "Proceed"

\* The UPDATE the session flushes for a loaded row: it sets the columns whose
\* assigned value differs from the value loaded (`old`) and leaves the others
\* as they are in the table now (`cur`).
FlushColumn(cur, old, new) == IF new = old THEN cur ELSE new

\* db.session.commit() of admin_geofence: INSERT when the read found no active
\* geofence, else UPDATE of the row that was read.
CommitGeofence(gfs, r) ==
    IF r.gf = NoGf
    THEN Append(gfs, NewGeoFence(Len(gfs) + 1, r.name, r.lat, r.lng, r.radius))
    ELSE [gfs EXCEPT ![r.gf.id] =
            [@ EXCEPT !.name = FlushColumn(@, r.gf.name, r.name),
                      !.center_lat = FlushColumn(@, r.gf.center_lat, r.lat),
                      !.center_lng = FlushColumn(@, r.gf.center_lng, r.lng),
                      !.radius_m = FlushColumn(@, r.gf.radius_m, r.radius),
                      !.active = FlushColumn(@, r.gf.active, TRUE)]]

\* The POST's form is drawn from Names, Centres and Radii.
AdminGeofenceRead(p, Names, Centres, Radii) ==
    /\ Starts(p)
    /\ \E name \in Names, pt \in Centres, radius \in Radii :
         LET lat == pt[1]
             lng == pt[2]
             outcome == admin_geofence(lat, lng, radius)
             gf == get_active_geofence(geofence)
         IN IF outcome = "Proceed"
            THEN /\ gf = NoGf => Len(geofence) + PendingGeofence < MaxGeofences
                 /\ Proceed(p, [NoReq EXCEPT
                        !.op = "admin_geofence", !.gf = gf,
                        !.name = GeofenceName(name),
                        !.lat = lat.val, !.lng = lng.val, !.radius = radius.val])
            ELSE Reply(p, "admin_geofence", 0, "none", outcome)
    /\ UNCHANGED <<geofence, attendance, location_ping, clock>>

AdminGeofenceCommit(p) ==
    /\ pc[p] = "commit"
    /\ req[p].op = "admin_geofence"
    /\ geofence' = CommitGeofence(geofence, req[p])
    /\ Reply(p, req[p].op, 0, "none", "GeofenceUpdated")
    /\ UNCHANGED <<attendance, location_ping, clock>>

\* GeoFence.query.first() in create_default_geofence: any row, active or not.
FirstGeofence(gfs) == IF Len(gfs) = 0 THEN NoGf ELSE gfs[1]

\* create_default_geofence, run by init-db or at start-up, up to its write.
CreateDefaultGeofenceRead(p) ==
    /\ Starts(p)
    /\ IF FirstGeofence(geofence) = NoGf
       THEN /\ Len(geofence) + PendingGeofence < MaxGeofences
            /\ Proceed(p, [NoReq EXCEPT
                   !.op = "create_default_geofence", !.name = DefaultGeoFence.name,
                   !.lat = DefaultGeoFence.center_lat,
                   !.lng = DefaultGeoFence.center_lng,
                   !.radius = DefaultGeoFence.radius_m])
       ELSE Reply(p, "create_default_geofence", 0, "none", "DefaultGeofenceExists")
    /\ UNCHANGED <<geofence, attendance, location_ping, clock>>

CreateDefaultGeofenceCommit(p) ==
    /\ pc[p] = "commit"
    /\ req[p].op = "create_default_geofence"
    /\ geofence' = Append(geofence,
                          NewGeoFence(Len(geofence) + 1, req[p].name, req[p].lat,
                                      req[p].lng, req[p].radius))
    /\ Reply(p, req[p].op, 0, "none", "DefaultGeofenceCreated")
    /\ UNCHANGED <<attendance, location_ping, clock>>

---------------------------------------------------------------------------
Next ==
    \/ Tick
    \/ \E p \in Procs : MarkAttendanceRead(p)
    \/ \E p \in Procs : MarkAttendanceCommit(p)
    \/ \E p \in Procs : MarkAttendancePhotoRead(p)
    \/ \E p \in Procs : MarkAttendancePhotoCommit(p)
    \/ \E p \in Procs : PingLocationRead(p)
    \/ \E p \in Procs : PingLocationCommit(p)
    \/ \E p \in Procs : AdminGeofenceRead(p, {""},
                                           {<<Num(DefaultLat + 2), Num(DefaultLng + 1)>>,
                                            <<Missing, Num(DefaultLng)>>},
                                           {Num(150), Num(0), Text})
    \/ \E p \in Procs : AdminGeofenceCommit(p)
    \/ \E p \in Procs : CreateDefaultGeofenceRead(p)
    \/ \E p \in Procs : CreateDefaultGeofenceCommit(p)

Spec == Init /\ [][Next]_vars

\* The attendance endpoints over the geofence that start-up creates.
NextAttendance ==
    \/ Tick
    \/ \E p \in Procs : MarkAttendanceRead(p)
    \/ \E p \in Procs : MarkAttendanceCommit(p)
    \/ \E p \in Procs : MarkAttendancePhotoRead(p)
    \/ \E p \in Procs : MarkAttendancePhotoCommit(p)
    \/ \E p \in Procs : CreateDefaultGeofenceRead(p)
    \/ \E p \in Procs : CreateDefaultGeofenceCommit(p)

SpecAttendance == Init /\ [][NextAttendance]_vars

\* The geofence registry alone.
NextGeofence ==
    \/ \E p \in Procs : AdminGeofenceRead(p, RawNames, RawCentres, RawRadii)
    \/ \E p \in Procs : AdminGeofenceCommit(p)
    \/ \E p \in Procs : CreateDefaultGeofenceRead(p)
    \/ \E p \in Procs : CreateDefaultGeofenceCommit(p)

SpecGeofence == Init /\ [][NextGeofence]_vars

\* The ping log and its retrieval.
NextPings ==
    \/ Tick
    \/ \E p \in Procs : PingLocationRead(p)
    \/ \E p \in Procs : PingLocationCommit(p)
    \/ \E p \in Procs : UserMovement(p)
    \/ \E p \in Procs : CreateDefaultGeofenceRead(p)
    \/ \E p \in Procs : CreateDefaultGeofenceCommit(p)

SpecPings == Init /\ [][NextPings]_vars

---------------------------------------------------------------------------
(* Properties. *)

\* The well-formed points of requests.
NumPoints == {pt \in RawPoints : pt[1].kind = "num" /\ pt[2].kind = "num"}

\* Whether pt is inside the active geofence of the table gfs.
PointInside(pt, gfs) ==
    LET gf == get_active_geofence(gfs)
    IN Inside(haversine(pt[1].val, pt[2].val, gf.center_lat, gf.center_lng), gf)

\* Whether some Attendance row of (u, d) has its check-in time set.
CheckedIn(atts, u, d) ==
    \E i \in 1..Len(atts) :
        atts[i].user_id = u /\ atts[i].date = d /\ atts[i].check_in_time # NULL

\* Whether some Attendance row of (u, d) has its check-out time set.
CheckedOut(atts, u, d) ==
    \E i \in 1..Len(atts) :
        atts[i].user_id = u /\ atts[i].date = d /\ atts[i].check_out_time # NULL

\* The step in which execution p commits a check-in and answers success.
CheckInSucceeds(p) ==
    /\ pc[p] = "commit"
    /\ req[p].op \in {"mark_attendance", "mark_attendance_photo"}
    /\ req[p].action = "check_in"
    /\ response' = [proc |-> p, op |-> req[p].op, user |-> req[p].user,
                    action |-> "check_in", outcome |-> "CheckInOk"]

\* No step changes a table.
TablesUnchanged == UNCHANGED <<geofence, attendance, location_ping>>

\* C1: of the CheckIn requests for one (user, day) from inside the zone,
\* however they interleave, exactly one succeeds: a CheckIn is answered with
\* success, and performs the transition, only when no check-in of that
\* (user, day) has been committed before it.
C1_OneCheckInSucceeds ==
    [][\A p \in Procs :
          CheckInSucceeds(p) => ~CheckedIn(attendance, req[p].user, req[p].today)]_vars

\* C2: in every reachable state the Attendance table holds at most one row
\* for each (user_id, date).
C2_OneRecordPerUserDay ==
    \A i, j \in 1..Len(attendance) :
        (attendance[i].user_id = attendance[j].user_id
         /\ attendance[i].date = attendance[j].date) => i = j

\* C3: check-in is idempotent.  Once (user, day) has a check-in time, a further
\* CheckIn of that user on that day never goes on to write, and from inside
\* the zone it is answered AlreadyCheckedIn, by either endpoint; that answer
\* changes no table; and no step of any operation changes or clears the
\* check-in time or location of a row that has them.
C3_CheckInIdempotent ==
    /\ [](\A u \in Users, pt \in NumPoints :
            CheckedIn(attendance, u, Today(clock)) =>
              LET a == mark_attendance(u, pt[1], pt[2], "check_in", geofence,
                                       attendance, Today(clock))
                  b == mark_attendance_photo(u, pt[1], pt[2], "check_in", TRUE,
                                             geofence, attendance, Today(clock))
              IN /\ a # "Proceed"
                 /\ b # "Proceed"
                 /\ (get_active_geofence(geofence) # NoGf /\ PointInside(pt, geofence))
                      => (a = "AlreadyCheckedIn" /\ b = "AlreadyCheckedIn"))
    /\ [][/\ response'.outcome = "AlreadyCheckedIn" => TablesUnchanged
          /\ \A i \in 1..Len(attendance) :
               attendance[i].check_in_time # NULL =>
                 /\ i <= Len(attendance')
                 /\ attendance'[i].check_in_time = attendance[i].check_in_time
                 /\ attendance'[i].check_in_lat = attendance[i].check_in_lat
                 /\ attendance'[i].check_in_lng = attendance[i].check_in_lng]_vars

\* C3 witness: a second CheckIn, made after the clock has moved on from the
\* first one's time, has been answered AlreadyCheckedIn.
C3_Witness ==
    /\ response.outcome = "AlreadyCheckedIn"
    /\ \E i \in 1..Len(attendance) :
         /\ attendance[i].user_id = response.user
         /\ attendance[i].date = Today(clock)
         /\ attendance[i].check_in_time # NULL
         /\ attendance[i].check_in_time < clock

\* C4: once a row's check-out time is set, no step changes it or the check-out
\* location, also when CheckOut requests interleave.
C4_CheckOutNeverOverwritten ==
    [][\A i \in 1..Len(attendance) :
          attendance[i].check_out_time # NULL =>
            /\ i <= Len(attendance')
            /\ attendance'[i].check_out_time = attendance[i].check_out_time
            /\ attendance'[i].check_out_lat = attendance[i].check_out_lat
            /\ attendance'[i].check_out_lng = attendance[i].check_out_lng]_vars

\* C5: in every reachable state every Attendance row with a check-out time
\* has a check-in time, and the check-out time is not before it.
C5_CheckOutAfterCheckIn ==
    \A i \in 1..Len(attendance) :
        attendance[i].check_out_time # NULL =>
          /\ attendance[i].check_in_time # NULL
          /\ attendance[i].check_out_time >= attendance[i].check_in_time

\* C5 witness: a row checked out strictly later than it was checked in.
C5_Witness ==
    \E i \in 1..Len(attendance) :
        /\ attendance[i].check_in_time # NULL
        /\ attendance[i].check_out_time # NULL
        /\ attendance[i].check_out_time > attendance[i].check_in_time

\* C6: the zone check short-circuits.  With an active geofence, a check_in or
\* check_out from a point outside it is answered OutsideZone by either
\* endpoint, whatever the record of (user, day) holds, and the step that
\* answers OutsideZone changes no table.
C6_OutsideZoneShortCircuits ==
    /\ [](get_active_geofence(geofence) # NoGf =>
            \A u \in Users, pt \in NumPoints, action \in {"check_in", "check_out"} :
                ~PointInside(pt, geofence) =>
                  /\ mark_attendance(u, pt[1], pt[2], action, geofence, attendance,
                                     Today(clock)) = "OutsideZone"
                  /\ mark_attendance_photo(u, pt[1], pt[2], action, TRUE, geofence,
                                           attendance, Today(clock)) = "OutsideZone")
    /\ [][response'.outcome = "OutsideZone" => TablesUnchanged]_vars

\* C6 witness: OutsideZone has been answered to a user whose record of the
\* day is already checked out.
C6_Witness ==
    /\ response.outcome = "OutsideZone"
    /\ response.action \in {"check_in", "check_out"}
    /\ CheckedOut(attendance, response.user, Today(clock))

\* C7: with an active geofence, a CheckOut from inside the zone for a
\* (user, day) that has no check-in is answered NotCheckedIn by either
\* endpoint, and the step that answers NotCheckedIn changes no table.
C7_CheckOutBeforeCheckIn ==
    /\ [](get_active_geofence(geofence) # NoGf =>
            \A u \in Users, pt \in NumPoints :
                (PointInside(pt, geofence) /\ ~CheckedIn(attendance, u, Today(clock))) =>
                  /\ mark_attendance(u, pt[1], pt[2], "check_out", geofence,
                                     attendance, Today(clock)) = "NotCheckedIn"
                  /\ mark_attendance_photo(u, pt[1], pt[2], "check_out", TRUE, geofence,
                                           attendance, Today(clock)) = "NotCheckedIn")
    /\ [][response'.outcome = "NotCheckedIn" => TablesUnchanged]_vars

\* C7 witness: NotCheckedIn has been answered to a user who has no record,
\* while a geofence is active.
C7_Witness ==
    /\ response.outcome = "NotCheckedIn"
    /\ get_active_geofence(geofence) # NoGf
    /\ \A i \in 1..Len(attendance) : attendance[i].user_id # response.user

\* C8: while no GeoFence row is active, every well-formed ping, check_in and
\* check_out is answered NoActiveGeofence, and the step that answers it
\* changes no table.
C8_NoActiveGeofence ==
    /\ []((\A i \in 1..Len(geofence) : ~geofence[i].active) =>
            \A u \in Users, pt \in RawPoints, action \in {"check_in", "check_out"} :
                (pt[1].kind # "none" /\ pt[2].kind # "none") =>
                  /\ ping_location(pt[1], pt[2], geofence) = "NoActiveGeofence"
                  /\ mark_attendance(u, pt[1], pt[2], action, geofence, attendance,
                                     Today(clock)) = "NoActiveGeofence"
                  /\ mark_attendance_photo(u, pt[1], pt[2], action, TRUE, geofence,
                                           attendance, Today(clock)) = "NoActiveGeofence")
    /\ [][response'.outcome = "NoActiveGeofence" => TablesUnchanged]_vars

\* C8 witness: a ping has been answered NoActiveGeofence and the tables are
\* empty.
C8_Witness ==
    /\ response.outcome = "NoActiveGeofence"
    /\ response.op = "ping_location"
    /\ geofence = <<>>
    /\ location_ping = <<>>

\* C9: in every reachable state at most one GeoFence row is active.
C9_OneActiveGeofence ==
    Cardinality({i \in 1..Len(geofence) : geofence[i].active}) <= 1

\* C10: a radius that is not positive is rejected, so in every reachable
\* state every active GeoFence row has radius_m > 0.
C10_ActiveRadiusPositive ==
    \A i \in 1..Len(geofence) : geofence[i].active => geofence[i].radius_m > 0

\* C11: a centre whose latitude is outside [-90, 90] degrees or whose
\* longitude is outside [-180, 180] degrees is rejected, so in every reachable
\* state every active GeoFence row has its centre within those ranges.
C11_CentreInRange ==
    \A i \in 1..Len(geofence) :
        geofence[i].active =>
          /\ geofence[i].center_lat >= 0 - 90 * 1000
          /\ geofence[i].center_lat <= 90 * 1000
          /\ geofence[i].center_lng >= 0 - 180 * 1000
          /\ geofence[i].center_lng <= 180 * 1000

\* C12: membership has an inclusive boundary in every consumer.  With an
\* active geofence of radius r, for every well-formed point at distance d,
\* both attendance endpoints answer OutsideZone exactly when d > r, and a
\* ping that goes on to be stored carries the flag inside exactly when d <= r.
C12_InclusiveBoundary ==
    /\ [](LET gf == get_active_geofence(geofence) IN
          gf # NoGf =>
            \A u \in Users, pt \in NumPoints, action \in {"check_in", "check_out"} :
                LET d == haversine(pt[1].val, pt[2].val, gf.center_lat, gf.center_lng)
                IN /\ (mark_attendance(u, pt[1], pt[2], action, geofence, attendance,
                                       Today(clock)) = "OutsideZone")
                        <=> (d > gf.radius_m * 1000)
                   /\ (mark_attendance_photo(u, pt[1], pt[2], action, TRUE, geofence,
                                             attendance, Today(clock)) = "OutsideZone")
                        <=> (d > gf.radius_m * 1000))
    /\ [][LET gf == get_active_geofence(geofence) IN
          \A p \in Procs :
              (pc[p] = "idle" /\ pc'[p] = "commit" /\ req'[p].op = "ping_location") =>
                (req'[p].inside <=>
                   haversine(req'[p].lat, req'[p].lng, gf.center_lat, gf.center_lng)
                     <= gf.radius_m * 1000)]_vars

\* C12 witness: a ping and a check-in made at the centre of an active
\* geofence of radius 0 (d = r = 0) have both been taken as inside.
C12_Witness ==
    LET gf == get_active_geofence(geofence) IN
    /\ gf # NoGf
    /\ gf.radius_m = 0
    /\ \E i \in 1..Len(location_ping) :
         /\ location_ping[i].inside_geofence
         /\ location_ping[i].lat = gf.center_lat
         /\ location_ping[i].lng = gf.center_lng
    /\ \E i \in 1..Len(attendance) :
         /\ attendance[i].check_in_lat = gf.center_lat
         /\ attendance[i].check_in_lng = gf.center_lng

\* C13: the ping log is append-only.  A well-formed ping goes on to be stored
\* whenever a geofence is active, whatever the log holds; its flag is
\* evaluated against the geofence active when the request reads it; its
\* commit appends exactly one row, carrying that flag; no other step adds a
\* row; and no step of any operation changes or removes a stored row.
C13_PingLogAppendOnly ==
    /\ [](\A pt \in NumPoints :
            get_active_geofence(geofence) # NoGf =>
              ping_location(pt[1], pt[2], geofence) = "Proceed")
    /\ [][/\ \A i \in 1..Len(location_ping) :
               /\ i <= Len(location_ping')
               /\ location_ping'[i] = location_ping[i]
          /\ \A p \in Procs :
               (pc[p] = "idle" /\ pc'[p] = "commit" /\ req'[p].op = "ping_location") =>
                 (req'[p].inside <=>
                    PointInside(<<Num(req'[p].lat), Num(req'[p].lng)>>, geofence))
          /\ \A p \in Procs :
               (pc[p] = "commit" /\ pc'[p] = "idle" /\ req[p].op = "ping_location") =>
                 /\ Len(location_ping') = Len(location_ping) + 1
                 /\ LET ping == location_ping'[Len(location_ping')]
                    IN /\ ping.user_id = req[p].user
                       /\ ping.lat = req[p].lat
                       /\ ping.lng = req[p].lng
                       /\ ping.inside_geofence = req[p].inside
                 /\ response'.outcome = "PingOk"
          /\ (\A p \in Procs :
                 ~(pc[p] = "commit" /\ pc'[p] = "idle" /\ req[p].op = "ping_location"))
               => location_ping' = location_ping]_vars

\* C13 witness: the log holds two identical pings of one user, and the
\* geofence has since been updated so that the stored flag is no longer what
\* the active zone would give.
C13_Witness ==
    /\ Len(location_ping) = 2
    /\ location_ping[1].user_id = location_ping[2].user_id
    /\ location_ping[1].lat = location_ping[2].lat
    /\ location_ping[1].lng = location_ping[2].lng
    /\ get_active_geofence(geofence) # NoGf
    /\ location_ping[1].inside_geofence
    /\ ~PointInside(<<Num(location_ping[1].lat), Num(location_ping[1].lng)>>, geofence)

\* Whether the point (lat, lng) is within the radius of the GeoFence row gf,
\* all three of centre latitude, centre longitude and radius taken from gf.
WithinRow(lat, lng, gf) ==
    haversine(lat, lng, gf.center_lat, gf.center_lng) <= gf.radius_m * 1000

\* C14: no membership evaluation sees a torn geofence.  Whatever admin
\* updates are in progress, every request that is let through as inside was
\* evaluated against the centre and radius of one committed active row, every
\* request answered as outside likewise, and the flag of every ping is the
\* verdict of one committed active row.
C14_NoTornGeofence ==
    /\ [](\A u \in Users, pt \in NumPoints, action \in {"check_in", "check_out"} :
            LET a == mark_attendance(u, pt[1], pt[2], action, geofence, attendance,
                                     Today(clock))
                b == mark_attendance_photo(u, pt[1], pt[2], action, TRUE, geofence,
                                           attendance, Today(clock))
                in == \E i \in 1..Len(geofence) :
                         geofence[i].active /\ WithinRow(pt[1].val, pt[2].val, geofence[i])
                out == \E i \in 1..Len(geofence) :
                          geofence[i].active /\ ~WithinRow(pt[1].val, pt[2].val, geofence[i])
            IN /\ a = "OutsideZone" => out
               /\ b = "OutsideZone" => out
               /\ a \in {"Proceed", "AlreadyCheckedIn", "NotCheckedIn", "AlreadyCheckedOut"}
                    => in
               /\ b \in {"Proceed", "AlreadyCheckedIn", "NotCheckedIn", "AlreadyCheckedOut"}
                    => in)
    /\ [][\A p \in Procs :
              (pc[p] = "idle" /\ pc'[p] = "commit" /\ req'[p].op = "ping_location") =>
                \E i \in 1..Len(geofence) :
                    /\ geofence[i].active
                    /\ req'[p].inside <=> WithinRow(req'[p].lat, req'[p].lng, geofence[i])]_vars

\* C14 witness: a ping has been evaluated while an admin update of the active
\* row was in progress, and its flag is the committed row's verdict, which is
\* not the verdict of the update's values.
C14_Witness ==
    \E p, q \in Procs :
        /\ pc[p] = "commit" /\ req[p].op = "ping_location"
        /\ pc[q] = "commit" /\ req[q].op = "admin_geofence"
        /\ req[q].gf # NoGf
        /\ req[q].gf = get_active_geofence(geofence)
        /\ req[p].inside
        /\ ~WithinRow(req[p].lat, req[p].lng,
                      [req[q].gf EXCEPT !.center_lat = req[q].lat,
                                        !.center_lng = req[q].lng,
                                        !.radius_m = req[q].radius])

\* Whether res is exactly the rows of pings that belong to user u and whose
\* timestamp lies in day d, each once, in ascending order of timestamp.
IsMovementOf(res, pings, u, d) ==
    /\ \A k \in 1..Len(res) :
         /\ res[k].user_id = u
         /\ Today(res[k].timestamp) = d
         /\ \E i \in 1..Len(pings) : pings[i] = res[k]
    /\ \A i \in 1..Len(pings) :
         (pings[i].user_id = u /\ Today(pings[i].timestamp) = d) =>
           Cardinality({k \in 1..Len(res) : res[k] = pings[i]}) = 1
    /\ \A j, k \in 1..Len(res) : j < k => res[j].timestamp <= res[k].timestamp

\* C15: the movement query of (user, day) gives exactly the stored pings of
\* that user whose timestamp falls in that day, in ascending order of
\* timestamp, in every reachable state and in every answer sent; and a step
\* that appends a ping keeps what the query gave before as it was: the new
\* result holds the old one's rows in the old order.
C15_GetPings ==
    /\ [](/\ \A u \in Users, d \in 0..Today(MaxClock) :
               IsMovementOf(user_movement(location_ping, u, d), location_ping, u, d)
          /\ response.outcome = "Movement" =>
               IsMovementOf(response.pings, location_ping, response.user,
                            response.target_date))
    /\ [][\A u \in Users, d \in 0..Today(MaxClock) :
              LET old == user_movement(location_ping, u, d)
                  new == user_movement(location_ping', u, d)
                  Kept(row) == \E k \in 1..Len(old) : old[k] = row
              IN SelectSeq(new, Kept) = old]_vars

\* C15 witness: a movement query has been answered with a ping of the user
\* while the log also holds a ping of the same user on another day.
C15_Witness ==
    /\ response.outcome = "Movement"
    /\ Len(response.pings) = 1
    /\ \E i \in 1..Len(location_ping) :
         /\ location_ping[i].user_id = response.user
         /\ Today(location_ping[i].timestamp) > response.target_date

\* C16: an admin update that commits while a geofence is active updates it in
\* place: the table does not grow and the active geofence keeps its id; and
\* after every committed admin update the active geofence has the name,
\* centre and radius that the update posted.
C16_UpdateInPlace ==
    [][\A p \in Procs :
          (pc[p] = "commit" /\ req[p].op = "admin_geofence" /\ pc'[p] = "idle") =>
            LET before == get_active_geofence(geofence)
                after == get_active_geofence(geofence')
            IN /\ before # NoGf =>
                    /\ Len(geofence') = Len(geofence)
                    /\ after.id = before.id
               /\ after.name = req[p].name
               /\ after.center_lat = req[p].lat
               /\ after.center_lng = req[p].lng
               /\ after.radius_m = req[p].radius]_vars

\* The state of (u, d) as the handlers read it: the row that
\* Attendance.query.filter_by(user_id=u, date=d).first() finds.
RecordState(atts, u, d) ==
    LET i == AttendanceOf(atts, u, d)
    IN IF i = 0 \/ atts[i].check_in_time = NULL THEN "NoRecord"
       ELSE IF atts[i].check_out_time = NULL THEN "CheckedIn"
       ELSE "CheckedOut"

\* C17: in every step the state of every (user, day) stays as it is or moves
\* from NoRecord to CheckedIn or from CheckedIn to CheckedOut; and while it is
\* CheckedOut no step changes the record, no check_in of that user for that
\* day is answered with success and no check_out is.
C17_ForwardOnly ==
    [][\A u \in Users, d \in 0..Today(MaxClock) :
          LET s == RecordState(attendance, u, d)
              t == RecordState(attendance', u, d)
              i == AttendanceOf(attendance, u, d)
          IN /\ \/ t = s
                \/ s = "NoRecord" /\ t = "CheckedIn"
                \/ s = "CheckedIn" /\ t = "CheckedOut"
             /\ s = "CheckedOut" =>
                  /\ attendance'[i] = attendance[i]
                  /\ \A p \in Procs :
                       (pc[p] = "commit" /\ pc'[p] = "idle" /\ req[p].user = u
                        /\ req[p].today = d)
                         => response'.outcome \notin {"CheckInOk", "CheckOutOk"}]_vars

\* The step in which execution p commits the write of a request `ops`.
Commits(p, ops) == pc[p] = "commit" /\ pc'[p] = "idle" /\ req[p].op \in ops

\* C18: frame independence.  The commit of a check_in or check_out of user u
\* adds or changes at most one Attendance row, a row of u for the request's
\* day, and leaves every other row, the ping log and the geofence as they
\* are; the commit of a ping changes only the ping log; and the steps of
\* these requests that answer without a commit change no table.
C18_FrameIndependence ==
    [][\A p \in Procs :
          /\ Commits(p, {"mark_attendance", "mark_attendance_photo"}) =>
               /\ location_ping' = location_ping
               /\ geofence' = geofence
               /\ Len(attendance') \in {Len(attendance), Len(attendance) + 1}
               /\ \A i \in 1..Len(attendance) :
                    (attendance[i].user_id # req[p].user
                     \/ attendance[i].date # req[p].today)
                      => attendance'[i] = attendance[i]
               /\ Cardinality({i \in 1..Len(attendance') :
                                 i > Len(attendance) \/ attendance'[i] # attendance[i]}) <= 1
               /\ \A i \in (Len(attendance) + 1)..Len(attendance') :
                    /\ attendance'[i].user_id = req[p].user
                    /\ attendance'[i].date = req[p].today
          /\ Commits(p, {"ping_location"}) =>
               /\ attendance' = attendance
               /\ geofence' = geofence
          /\ response'.op \in {"mark_attendance", "mark_attendance_photo", "ping_location"}
               /\ response'.outcome \notin {"CheckInOk", "CheckOutOk", "PingOk"}
               => TablesUnchanged]_vars

\* C18 witness: a check_out of one user has just been committed while the
\* table holds the record of another user for the same day, still checked in.
C18_Witness ==
    /\ response.outcome = "CheckOutOk"
    /\ \E i, j \in 1..Len(attendance) :
         /\ attendance[i].user_id = response.user
         /\ attendance[i].check_out_time # NULL
         /\ attendance[j].user_id # response.user
         /\ attendance[j].date = attendance[i].date
         /\ attendance[j].check_in_time # NULL
         /\ attendance[j].check_out_time = NULL

\* C19: every mark_attendance request ends with one of the handler's return
\* statements: every response to mark_attendance is one of the nine explicit
\* outcomes, never the end of the function and never an error that nothing
\* handles.
C19_ExplicitResponse ==
    response.op = "mark_attendance" =>
      response.outcome \in {"InvalidData", "NoActiveGeofence", "InvalidCoordinates",
                            "OutsideZone", "AlreadyCheckedIn", "CheckInOk",
                            "NotCheckedIn", "AlreadyCheckedOut", "CheckOutOk"}

\* An Attendance row without its photo filenames.
StripPhoto(row) == [row EXCEPT !.check_in_photo = NoPhoto, !.check_out_photo = NoPhoto]

\* C20: the two attendance endpoints implement one state machine.  In every
\* reachable state, for every user, every pair of coordinates that is present
\* and every action in {check_in, check_out}, mark_attendance and
\* mark_attendance_photo (given a photo) end the same way, and when they go
\* on to write, their commits leave tables that differ in the photo
\* filenames only.
C20_SameStateMachine ==
    \A u \in Users, pt \in RawPoints, action \in {"check_in", "check_out"} :
        (pt[1].kind # "none" /\ pt[2].kind # "none") =>
          LET a == mark_attendance(u, pt[1], pt[2], action, geofence, attendance,
                                   Today(clock))
              b == mark_attendance_photo(u, pt[1], pt[2], action, TRUE, geofence,
                                         attendance, Today(clock))
              plain == CommitAttendance(attendance,
                           AttendanceReq("mark_attendance", u, pt[1], pt[2], action, FALSE))
              photo == CommitAttendance(attendance,
                           AttendanceReq("mark_attendance_photo", u, pt[1], pt[2], action,
                                         TRUE))
          IN /\ a = b
             /\ a = "Proceed" =>
                  /\ Len(plain) = Len(photo)
                  /\ \A i \in 1..Len(plain) : StripPhoto(plain[i]) = StripPhoto(photo[i])
                  /\ \E i \in 1..Len(photo) : photo[i] # plain[i]

\* C20 witness: a record checked in through mark_attendance and checked out
\* through mark_attendance_photo, and a further check_out through
\* mark_attendance answered AlreadyCheckedOut.
C20_Witness ==
    /\ response.op = "mark_attendance"
    /\ response.outcome = "AlreadyCheckedOut"
    /\ \E i \in 1..Len(attendance) :
         /\ attendance[i].user_id = response.user
         /\ attendance[i].check_in_time # NULL
         /\ attendance[i].check_in_photo = NoPhoto
         /\ attendance[i].check_out_time # NULL
         /\ attendance[i].check_out_photo # NoPhoto

====
